---- MODULE Spec2Model ----
\* A model of timelapse.py: one run of main(), a linear pipeline
\*   check environment -> get_imou_access_token -> get_device_snapshot
\*   -> filename -> upload_to_google_drive -> banner,
\* with every upstream call (token POST, snapshot POST, image GET, Drive
\* create) answering nondeterministically.
EXTENDS Integers, Sequences, FiniteSets, TLC

\* ------------------------------------------------------------------ bounds
\* Number of distinct access-token values an upstream answer may carry.
NumTokens == 2
\* Number of distinct image URLs an upstream answer may carry.
NumUrls == 2
\* Longest "snapshots" list an upstream answer may carry.
MaxSnapshots == 2

\* ------------------------------------------------------- values and dicts
\* Python's None (also what os.environ.get gives for an unset variable).
None == "<None>"

RECURSIVE Str(_)
\* str(n) for a natural number n.
Str(n) ==
    LET d == CASE n % 10 = 0 -> "0" [] n % 10 = 1 -> "1" [] n % 10 = 2 -> "2"
               [] n % 10 = 3 -> "3" [] n % 10 = 4 -> "4" [] n % 10 = 5 -> "5"
               [] n % 10 = 6 -> "6" [] n % 10 = 7 -> "7" [] n % 10 = 8 -> "8"
               [] OTHER -> "9"
    IN  IF n < 10 THEN d ELSE Str(n \div 10) \o d

\* A JSON object is a function from its keys to its values; {} is EmptyDict.
EmptyDict == [k \in {} |-> ""]
\* `k in d`
Has(d, k) == k \in DOMAIN d
\* d.get(k) for a key that holds a string
Get(d, k) == IF Has(d, k) THEN d[k] ELSE None
\* The objects that either lack key k or hold one of V under it.
Opt(k, V) == {EmptyDict} \cup {(k :> v) : v \in V}

Tokens == {"tok" \o Str(i) : i \in 1..NumTokens}
Urls == {"https://img/" \o Str(i) : i \in 1..NumUrls}
\* Status codes of the vendor API: "0" is success.
Codes == {"0", "1"}

\* Bodies the token endpoint may answer with (response.json(), line 55).
TokenResult == {c @@ a : c \in Opt("code", Codes), a \in Opt("accessToken", Tokens)}
TokenResponses ==
    {c @@ a @@ r : c \in Opt("code", Codes), a \in Opt("accessToken", Tokens),
                   r \in Opt("result", TokenResult)}

\* Bodies the snapshot endpoint may answer with (response.json(), line 98).
\* The top-level "url" and "snapshots" are read only when there is no
\* "result" key (line 105), so they are enumerated only in that case.
SnapshotEntries == Opt("url", Urls)
SnapshotLists == UNION {[1..n -> SnapshotEntries] : n \in 0..MaxSnapshots}
SnapshotResult ==
    {c @@ u @@ s : c \in Opt("code", Codes), u \in Opt("url", Urls),
                   s \in Opt("snapshots", SnapshotLists)}
SnapshotResponses ==
    SnapshotResult \cup
    {c @@ ("result" :> r) : c \in Opt("code", Codes), r \in SnapshotResult}

\* The outcome of a function call: a returned value or a raised exception.
Return(v) == [raised |-> FALSE, value |-> v]
Raise == [raised |-> TRUE, value |-> None]

\* --------------------------------------------------------- configuration
\* required_vars of main(), in the order of the list.
required_vars == <<"IMOU_APP_ID", "IMOU_APP_SECRET", "IMOU_DEVICE_ID",
                   "GOOGLE_DRIVE_FOLDER_ID", "GOOGLE_CREDENTIALS_JSON">>
ValidCredentials == "{\"type\": \"service_account\"}"
MalformedCredentials == "not json"
\* What the process environment may hold for a variable: unset, empty, set.
EnvValues(var) == {None, "", "value-of-" \o var}
Environments ==
    [IMOU_APP_ID : EnvValues("IMOU_APP_ID"),
     IMOU_APP_SECRET : EnvValues("IMOU_APP_SECRET"),
     IMOU_DEVICE_ID : EnvValues("IMOU_DEVICE_ID"),
     GOOGLE_DRIVE_FOLDER_ID : EnvValues("GOOGLE_DRIVE_FOLDER_ID"),
     GOOGLE_CREDENTIALS_JSON : {None, "", ValidCredentials, MalformedCredentials}]

\* ------------------------------------------------------- the wall clock
Clocks == [year : {2024, 2025}, month : {1, 5, 12}, day : {1, 9, 31},
           hour : {0, 14, 23}, minute : {0, 7, 59}]
\* Pad2 with the padding forgotten (%-m in place of %m).
Pad2_Unpadded(n) == Str(n)
\* A field of strftime that is zero-padded to two digits (%m %d %H %M).
Pad2(n) == IF n < 10 THEN "0" \o Str(n) ELSE Str(n)
\* datetime.strftime("%Y-%m-%d_%H-%M")
strftime(now) ==
    Str(now.year) \o "-" \o Pad2(now.month) \o "-" \o Pad2(now.day) \o "_"
        \o Pad2(now.hour) \o "-" \o Pad2(now.minute)
\* f"timelapse_{timestamp}.jpg"
MakeFilename(now) == "timelapse_" \o strftime(now) \o ".jpg"

\* ------------------------------------------------- response normalisation
\* d.get('code') == '0'
CodeIsZero(d) == Get(d, "code") = "0"

\* ParseTokenResponse reading the token at the top level only.
ParseTokenResponse_FlatOnly(data) ==
    IF CodeIsZero(data) \/ (Has(data, "result") /\ CodeIsZero(data["result"]))
    THEN IF Has(data, "accessToken") THEN Return(data["accessToken"]) ELSE Raise
    ELSE Raise

\* get_imou_access_token, from the parsed body to the return or the raise.
ParseTokenResponse(data) ==
    IF CodeIsZero(data) \/ (Has(data, "result") /\ CodeIsZero(data["result"]))
    THEN IF Has(data, "result") /\ Has(data["result"], "accessToken")
         THEN Return(data["result"]["accessToken"])
         ELSE IF Has(data, "accessToken")
              THEN Return(data["accessToken"])
              ELSE Raise
    ELSE Raise

\* SnapshotCodeOk testing that a code is there, not that it is "0".
SnapshotCodeOk_KeyOnly(data) ==
    Has(data, "code") \/ (Has(data, "result") /\ Has(data["result"], "code"))

\* The success test of get_device_snapshot (an empty "result" is falsy).
SnapshotCodeOk(data) ==
    \/ CodeIsZero(data)
    \/ (Has(data, "result") /\ data["result"] # EmptyDict /\ CodeIsZero(data["result"]))

\* LocateUrl taking the last element of "snapshots", not the first.
LocateUrl_Last(data) ==
    IF CodeIsZero(data)
          \/ (Has(data, "result") /\ data["result"] # EmptyDict /\ CodeIsZero(data["result"]))
    THEN LET result == IF Has(data, "result") THEN data["result"] ELSE data
         IN  IF Has(result, "url")
             THEN Return(result["url"])
             ELSE IF Has(result, "snapshots") /\ Len(result["snapshots"]) > 0
                  THEN Return(Get(result["snapshots"][Len(result["snapshots"])], "url"))
                  ELSE Raise
    ELSE Raise

\* get_device_snapshot, from the parsed body to image_url or the raise.
LocateUrl(data) ==
    IF SnapshotCodeOk(data)
    THEN LET result == IF Has(data, "result") THEN data["result"] ELSE data
         IN  IF Has(result, "url")
             THEN Return(result["url"])
             ELSE IF Has(result, "snapshots") /\ Len(result["snapshots"]) > 0
                  THEN Return(Get(result["snapshots"][1], "url"))
                  ELSE Raise
    ELSE Raise

\* raise_for_status() left out: no status raises.
RaiseForStatus_Never(status) == FALSE
\* Response.raise_for_status(): raises on a 4xx or 5xx status.
RaiseForStatus(status) == status >= 400 /\ status < 600
\* Statuses the image host may answer with.
Statuses == {200, 404, 503}
JpegBytes == "<jpeg bytes>"
ErrorPage == "<error page>"
\* img_response.content
Content(status) == IF status = 200 THEN JpegBytes ELSE ErrorPage

\* missing_vars testing `is None` in place of `not`: an empty value passes.
missing_vars_UnsetOnly(environ) ==
    SelectSeq(required_vars, LAMBDA var : environ[var] = None)
\* [var for var in required_vars if not os.environ.get(var)]
missing_vars(environ) ==
    SelectSeq(required_vars, LAMBDA var : environ[var] = None \/ environ[var] = "")

\* file_metadata without the target folder.
FileMetadata_NoParent(name, folder) == [name |-> name, parents |-> <<>>]
\* file_metadata of upload_to_google_drive
FileMetadata(name, folder) == [name |-> name, parents |-> <<folder>>]
\* temp_file of upload_to_google_drive
TempFile(name) == "/tmp/" \o name

\* ------------------------------------------------------------------ state
VARIABLES
    pc,           \* where main() stands
    environ,      \* os.environ, fixed for the run
    access_token, \* main's access_token
    image_data,   \* main's image_data
    now,          \* the value datetime.now() returned
    filename,     \* main's filename
    tokenData,    \* `data` of get_imou_access_token: <<>> or <<body>>
    snapData,     \* `data` of get_device_snapshot: <<>> or <<body>>
    image_url,    \* image_url of get_device_snapshot
    img_status,   \* status of img_response, 0 while there is no response
    tokenPosts,   \* calls of requests.post on the token endpoint
    snapPosts,    \* calls of requests.post on the snapshot endpoint (params)
    imageGets,    \* calls of requests.get (url)
    tmpFiles,     \* the files under /tmp
    tmpWrites,    \* paths opened for writing
    tmpRemoves,   \* paths given to os.remove
    createCalls,  \* calls of files().create(...).execute() (body)
    driveFiles,   \* names of the files the storage holds
    banner        \* the banner printed: None, "success" or "error"

vars == <<pc, environ, access_token, image_data, now, filename, tokenData,
          snapData, image_url, img_status, tokenPosts, snapPosts, imageGets,
          tmpFiles, tmpWrites, tmpRemoves, createCalls, driveFiles, banner>>

calls == <<tokenPosts, snapPosts, imageGets, tmpWrites, tmpRemoves, createCalls>>
locals == <<tokenData, snapData, image_url, img_status>>

\* The module-level configuration, read from the environment at import.
IMOU_APP_ID == environ.IMOU_APP_ID
IMOU_DEVICE_ID == environ.IMOU_DEVICE_ID
GOOGLE_DRIVE_FOLDER_ID == environ.GOOGLE_DRIVE_FOLDER_ID
GOOGLE_CREDENTIALS_JSON == environ.GOOGLE_CREDENTIALS_JSON

NoClock == [year |-> 0, month |-> 0, day |-> 0, hour |-> 0, minute |-> 0]

Init ==
    /\ pc = "check_env"
    /\ environ \in Environments
    /\ access_token = None
    /\ image_data = None
    /\ now = NoClock
    /\ filename = None
    /\ tokenData = <<>>
    /\ snapData = <<>>
    /\ image_url = None
    /\ img_status = 0
    /\ tokenPosts = <<>>
    /\ snapPosts = <<>>
    /\ imageGets = <<>>
    /\ tmpFiles = {}
    /\ tmpWrites = <<>>
    /\ tmpRemoves = <<>>
    /\ createCalls = <<>>
    /\ driveFiles = {}
    /\ banner = None

\* ---------------------------------------------------------------- actions
\* main(): the environment check. Raises when a required variable is unset
\* or empty, before anything else is done.
CheckEnvironment ==
    /\ pc = "check_env"
    /\ pc' = IF missing_vars(environ) # <<>> THEN "except" ELSE "get_token"
    /\ UNCHANGED <<environ, access_token, image_data, now, filename, locals,
                   calls, tmpFiles, driveFiles, banner>>

\* get_imou_access_token(): the POST, then the normalisation of the body.
\* The POST itself, or response.json(), may raise.
GetAccessToken ==
    /\ pc = "get_token"
    /\ tokenPosts' = Append(tokenPosts, [appId |-> IMOU_APP_ID])
    /\ \/ /\ pc' = "except"
          /\ UNCHANGED <<tokenData, access_token>>
       \/ \E data \in TokenResponses :
            LET r == ParseTokenResponse(data) IN
            /\ tokenData' = <<data>>
            /\ IF r.raised
               THEN pc' = "except" /\ UNCHANGED access_token
               ELSE pc' = "get_snapshot" /\ access_token' = r.value
    /\ UNCHANGED <<environ, image_data, now, filename, snapData, image_url,
                   img_status, snapPosts, imageGets, tmpWrites, tmpRemoves,
                   createCalls, tmpFiles, driveFiles, banner>>

\* get_device_snapshot(access_token), up to image_url: the POST and the
\* normalisation of the body. get_imou_access_token has returned, so its
\* `data` is gone.
RequestSnapshot ==
    /\ pc = "get_snapshot"
    /\ tokenData' = <<>>
    /\ snapPosts' = Append(snapPosts, [token |-> access_token,
                                       deviceId |-> IMOU_DEVICE_ID,
                                       channelId |-> "0"])
    /\ \/ /\ pc' = "except"
          /\ UNCHANGED <<snapData, image_url>>
       \/ \E data \in SnapshotResponses :
            LET r == LocateUrl(data) IN
            /\ snapData' = <<data>>
            /\ IF r.raised
               THEN pc' = "except" /\ UNCHANGED image_url
               ELSE pc' = "download" /\ image_url' = r.value
    /\ UNCHANGED <<environ, access_token, image_data, now, filename,
                   img_status, tokenPosts, imageGets, tmpWrites, tmpRemoves,
                   createCalls, tmpFiles, driveFiles, banner>>

\* get_device_snapshot(), the download: requests.get(image_url, timeout=30),
\* raise_for_status(), return of the content. requests.get refuses a URL
\* that is None (no scheme) by raising; a host may not answer in time.
DownloadImage ==
    /\ pc = "download"
    /\ imageGets' = Append(imageGets, image_url)
    /\ \/ /\ pc' = "except"
          /\ UNCHANGED <<img_status, image_data>>
       \/ /\ image_url # None
          /\ \E status \in Statuses :
               /\ img_status' = status
               /\ IF RaiseForStatus(status)
                  THEN pc' = "except" /\ UNCHANGED image_data
                  ELSE pc' = "make_filename" /\ image_data' = Content(status)
    /\ UNCHANGED <<environ, access_token, now, filename, tokenData, snapData,
                   image_url, tokenPosts, snapPosts, tmpWrites, tmpRemoves,
                   createCalls, tmpFiles, driveFiles, banner>>

\* main(): the filename from the wall clock. get_device_snapshot has
\* returned, so its locals are gone.
GenerateFilename ==
    /\ pc = "make_filename"
    /\ \E t \in Clocks :
         /\ now' = t
         /\ filename' = MakeFilename(t)
    /\ snapData' = <<>>
    /\ image_url' = None
    /\ pc' = "credentials"
    /\ UNCHANGED <<environ, access_token, image_data, tokenData, img_status,
                   calls, tmpFiles, driveFiles, banner>>

\* upload_to_google_drive(): json.loads of the credential blob and the
\* construction of the service; raises on a blob that is no credential.
LoadCredentials ==
    /\ pc = "credentials"
    /\ pc' = IF GOOGLE_CREDENTIALS_JSON = ValidCredentials
             THEN "write_temp" ELSE "except"
    /\ UNCHANGED <<environ, access_token, image_data, now, filename, locals,
                   calls, tmpFiles, driveFiles, banner>>

\* upload_to_google_drive(): the image is written to /tmp/<filename>.
WriteTempFile ==
    /\ pc = "write_temp"
    /\ tmpWrites' = Append(tmpWrites, TempFile(filename))
    /\ tmpFiles' = tmpFiles \cup {TempFile(filename)}
    /\ pc' = "create"
    /\ UNCHANGED <<environ, access_token, image_data, now, filename, locals,
                   tokenPosts, snapPosts, imageGets, tmpRemoves, createCalls,
                   driveFiles, banner>>

\* upload_to_google_drive(): files().create(...).execute(). The call
\* either stores the file or raises; a raise leaves the function at once.
CreateFile ==
    /\ pc = "create"
    /\ createCalls' = Append(createCalls,
                             [body |-> FileMetadata(filename, GOOGLE_DRIVE_FOLDER_ID),
                              media |-> TempFile(filename),
                              mimetype |-> "image/jpeg"])
    /\ \/ pc' = "except" /\ UNCHANGED driveFiles
       \/ pc' = "remove" /\ driveFiles' = driveFiles \cup {filename}
    /\ UNCHANGED <<environ, access_token, image_data, now, filename, locals,
                   tokenPosts, snapPosts, imageGets, tmpWrites, tmpRemoves,
                   tmpFiles, banner>>

\* upload_to_google_drive(): os.remove(temp_file), the last statement.
RemoveTempFile ==
    /\ pc = "remove"
    /\ tmpRemoves' = Append(tmpRemoves, TempFile(filename))
    /\ tmpFiles' = tmpFiles \ {TempFile(filename)}
    /\ pc' = "success_banner"
    /\ UNCHANGED <<environ, access_token, image_data, now, filename, locals,
                   tokenPosts, snapPosts, imageGets, tmpWrites, createCalls,
                   driveFiles, banner>>

\* main(): the success banner, then the normal return.
PrintSuccess ==
    /\ pc = "success_banner"
    /\ banner' = "success"
    /\ pc' = "returned"
    /\ UNCHANGED <<environ, access_token, image_data, now, filename, locals,
                   calls, tmpFiles, driveFiles>>

\* The except clause without its `raise`: main returns normally.
HandleException_Swallow ==
    /\ pc = "except"
    /\ banner' = "error"
    /\ pc' = "returned"
    /\ UNCHANGED <<environ, access_token, image_data, now, filename, locals,
                   calls, tmpFiles, driveFiles>>

\* main(): except Exception: the error banner, the traceback, the re-raise.
HandleException ==
    /\ pc = "except"
    /\ banner' = "error"
    /\ pc' = "raised"
    /\ UNCHANGED <<environ, access_token, image_data, now, filename, locals,
                   calls, tmpFiles, driveFiles>>

Next ==
    \/ CheckEnvironment
    \/ GetAccessToken
    \/ RequestSnapshot
    \/ DownloadImage
    \/ GenerateFilename
    \/ LoadCredentials
    \/ WriteTempFile
    \/ CreateFile
    \/ RemoveTempFile
    \/ PrintSuccess
    \/ HandleException

Spec == Init /\ [][Next]_vars

\* ------------------------------------------------------------- vocabulary
\* main() has left the try block through the except clause.
Aborted == pc \in {"except", "raised"}
\* main() has ended.
Ended == pc \in {"returned", "raised"}
\* upload_to_google_drive has ended, by returning or by raising.
UploadStepEnded ==
    tmpWrites # <<>> /\ pc \in {"success_banner", "except", "returned", "raised"}
\* The body carries a code other than "0", at the top level or under "result".
CarriesNonZeroCode(d) ==
    \/ (Has(d, "code") /\ d["code"] # "0")
    \/ (Has(d, "result") /\ Has(d["result"], "code") /\ d["result"]["code"] # "0")
\* The body carries the code "0", at the top level or under "result".
CarriesZeroCode(d) ==
    \/ (Has(d, "code") /\ d["code"] = "0")
    \/ (Has(d, "result") /\ Has(d["result"], "code") /\ d["result"]["code"] = "0")
\* The access tokens the body holds, at either level.
TokensIn(d) ==
    (IF Has(d, "accessToken") THEN {d["accessToken"]} ELSE {}) \cup
    (IF Has(d, "result") /\ Has(d["result"], "accessToken")
     THEN {d["result"]["accessToken"]} ELSE {})

\* ---------------------------------------------------------------- claims

\* C1: on every exit of upload_to_google_drive reached after the temporary
\* file was written (the upload call succeeding or raising), no temporary
\* file remains on disk.
C1_NoTempFileAfterUpload == UploadStepEnded => tmpFiles = {}

\* C2 as stated: a token or snapshot body carrying a code other than "0",
\* at either level, aborts the run.
C2_AnyNonZeroCodeAborts ==
    /\ (tokenData # <<>> /\ CarriesNonZeroCode(tokenData[1])) => Aborted
    /\ (snapData # <<>> /\ CarriesNonZeroCode(snapData[1])) => Aborted

\* C2 as amended: a token or snapshot body carrying a code other than "0"
\* and no code "0" at the other level aborts the run, and the next step is
\* never taken: after such a token body no snapshot request is sent, after
\* such a snapshot body no image is downloaded and nothing is uploaded.
C2_NonZeroCodeAborts ==
    /\ (tokenData # <<>> /\ CarriesNonZeroCode(tokenData[1])
            /\ ~CarriesZeroCode(tokenData[1]))
         => (Aborted /\ snapPosts = <<>> /\ imageGets = <<>> /\ createCalls = <<>>)
    /\ (snapData # <<>> /\ CarriesNonZeroCode(snapData[1])
            /\ ~CarriesZeroCode(snapData[1]))
         => (Aborted /\ imageGets = <<>> /\ tmpWrites = <<>> /\ createCalls = <<>>)

\* A run that ended after a snapshot body with a failing nested code.
C2_Witness ==
    /\ pc = "raised"
    /\ snapData # <<>>
    /\ Has(snapData[1], "result")
    /\ CarriesNonZeroCode(snapData[1])
    /\ ~CarriesZeroCode(snapData[1])
    /\ Len(snapPosts) = 1

\* C3: the steps happen in strict order. The snapshot request is sent only
\* after a token body with code "0" gave the access token the request then
\* carries; the image is requested only after a snapshot body with code "0";
\* and the upload step (credentials, temporary file, upload call) begins
\* only after the image bytes were downloaded with a 2xx status.
C3_StepOrder ==
    /\ [][(snapPosts' # snapPosts) =>
            /\ Len(tokenPosts) = 1
            /\ tokenData # <<>>
            /\ CarriesZeroCode(tokenData[1])
            /\ access_token \in TokensIn(tokenData[1])
            /\ snapPosts = <<>>
            /\ snapPosts'[1].token = access_token]_vars
    /\ [][(imageGets' # imageGets) =>
            /\ Len(snapPosts) = 1
            /\ snapData # <<>>
            /\ CarriesZeroCode(snapData[1])]_vars
    /\ []((\/ pc \in {"credentials", "write_temp", "create", "remove", "success_banner"}
           \/ tmpWrites # <<>>
           \/ createCalls # <<>>)
          => (/\ Len(imageGets) = 1
              /\ img_status \in 200..299
              /\ image_data = JpegBytes))

\* A run in which all three steps were taken.
C3_Witness == pc = "returned" /\ Len(snapPosts) = 1 /\ Len(createCalls) = 1

FlatToken(t) == ("accessToken" :> t) @@ ("code" :> "0")
NestedToken(t) == ("result" :> FlatToken(t))

\* C5: for the same token value T, get_imou_access_token returns T for the
\* flat body {accessToken: T, code: "0"} and for the nested body
\* {result: {accessToken: T, code: "0"}}.
C5_TokenNormalization ==
    \A t \in Tokens :
        (tokenData = <<FlatToken(t)>> \/ tokenData = <<NestedToken(t)>>)
            => (pc = "get_snapshot" /\ access_token = t)

\* get_imou_access_token returned the token of a nested body.
C5_Witness ==
    tokenData = <<NestedToken("tok2")>> /\ pc = "get_snapshot" /\ access_token = "tok2"

\* The snapshot body has a "result" with the direct "url" u.
DirectUrlShape(d, u) ==
    Has(d, "result") /\ Has(d["result"], "url") /\ d["result"]["url"] = u
\* The snapshot body has a "result" without "url" whose "snapshots" list
\* starts with {url: u}.
SnapshotsUrlShape(d, u) ==
    /\ Has(d, "result")
    /\ ~Has(d["result"], "url")
    /\ Has(d["result"], "snapshots")
    /\ Len(d["result"]["snapshots"]) > 0
    /\ d["result"]["snapshots"][1] = ("url" :> u)

C7_EndToEnd ==
    (Ended /\ access_token \in Tokens /\ img_status \in 200..299 /\ driveFiles # {})
    => /\ Len(tokenPosts) = 1
       /\ Len(snapPosts) = 1
       /\ Len(imageGets) = 1
       /\ tmpWrites = <<"/tmp/" \o filename>>
       /\ tmpRemoves = <<"/tmp/" \o filename>>
       /\ Len(createCalls) = 1
       /\ createCalls[1].body =
            [name |-> filename, parents |-> <<environ.GOOGLE_DRIVE_FOLDER_ID>>]

\* A run that ended with the file stored.
C7_Witness ==
    /\ pc = "returned"
    /\ driveFiles = {filename}
    /\ createCalls[1].body.parents = <<"value-of-GOOGLE_DRIVE_FOLDER_ID">>

\* Two decimal digits of the clock values of Clocks, written out.
TwoDigits(n) ==
    CASE n = 0 -> "00" [] n = 1 -> "01" [] n = 5 -> "05" [] n = 7 -> "07"
      [] n = 9 -> "09" [] n = 12 -> "12" [] n = 14 -> "14" [] n = 23 -> "23"
      [] n = 31 -> "31" [] n = 59 -> "59"
FourDigits(y) == CASE y = 2024 -> "2024" [] y = 2025 -> "2025"
ExpectedName(t) ==
    "timelapse_" \o FourDigits(t.year) \o "-" \o TwoDigits(t.month) \o "-"
        \o TwoDigits(t.day) \o "_" \o TwoDigits(t.hour) \o "-"
        \o TwoDigits(t.minute) \o ".jpg"

\* C8: the filename is "timelapse_" Y "-" MM "-" DD "_" hh "-" mm ".jpg" of
\* the clock value read, with month, day, hour and minute zero-padded to two
\* digits (2024-05-01 14:07 gives timelapse_2024-05-01_14-07.jpg), and the same
\* string is the storage file name and the temporary file's name under /tmp.
C8_Filename ==
    filename # None =>
        /\ filename = ExpectedName(now)
        /\ Len(filename) = 30
        /\ now = [year |-> 2024, month |-> 5, day |-> 1, hour |-> 14, minute |-> 7]
             => filename = "timelapse_2024-05-01_14-07.jpg"
        /\ \A i \in DOMAIN tmpWrites : tmpWrites[i] = "/tmp/" \o ExpectedName(now)
        /\ \A i \in DOMAIN createCalls :
             /\ createCalls[i].body.name = ExpectedName(now)
             /\ createCalls[i].media = "/tmp/" \o ExpectedName(now)

\* The upload call of a run started at 2024-05-01 14:07.
C8_Witness ==
    /\ now = [year |-> 2024, month |-> 5, day |-> 1, hour |-> 14, minute |-> 7]
    /\ tmpWrites = <<"/tmp/timelapse_2024-05-01_14-07.jpg">>
    /\ Len(createCalls) = 1
    /\ createCalls[1].body.name = "timelapse_2024-05-01_14-07.jpg"

\* The body holds no "url" and no "snapshots" list whose first element has
\* a "url", in the object the URL is looked up in.
NoUrlLocated(d) ==
    LET result == IF Has(d, "result") THEN d["result"] ELSE d IN
    /\ ~Has(result, "url")
    /\ ~(/\ Has(result, "snapshots")
         /\ Len(result["snapshots"]) > 0
         /\ Has(result["snapshots"][1], "url"))

\* C9: after a snapshot body with code "0" in which no URL can be located,
\* get_device_snapshot raises and requests.get is never called; requests.get
\* is only ever called with a URL found in the body.
C9_NoUrlNoDownload ==
    /\ (snapData # <<>> /\ CarriesZeroCode(snapData[1]) /\ NoUrlLocated(snapData[1]))
         => (imageGets = <<>> /\ (pc # "download" => Aborted))
    /\ \A i \in DOMAIN imageGets : imageGets[i] \in Urls

\* One of the five required variables is unset or empty.
SomeRequiredMissing ==
    \/ environ.IMOU_APP_ID \in {None, ""}
    \/ environ.IMOU_APP_SECRET \in {None, ""}
    \/ environ.IMOU_DEVICE_ID \in {None, ""}
    \/ environ.GOOGLE_DRIVE_FOLDER_ID \in {None, ""}
    \/ environ.GOOGLE_CREDENTIALS_JSON \in {None, ""}

\* C10: with a required configuration value missing or empty the run aborts
\* before any upstream call: no token request, no snapshot request, no
\* image download, no temporary file, no upload.
C10_MissingConfigAborts ==
    SomeRequiredMissing =>
        /\ pc \in {"check_env", "except", "raised"}
        /\ tokenPosts = <<>>
        /\ snapPosts = <<>>
        /\ imageGets = <<>>
        /\ tmpWrites = <<>>
        /\ tmpFiles = {}
        /\ createCalls = <<>>
        /\ driveFiles = {}

\* A run that ended on an empty credential blob, all else being set.
C10_Witness ==
    /\ pc = "raised"
    /\ banner = "error"
    /\ environ.GOOGLE_CREDENTIALS_JSON = ""
    /\ environ.IMOU_APP_ID \notin {None, ""}
    /\ environ.IMOU_APP_SECRET \notin {None, ""}
    /\ environ.IMOU_DEVICE_ID \notin {None, ""}
    /\ environ.GOOGLE_DRIVE_FOLDER_ID \notin {None, ""}
====
